---- MODULE Spec2Model ----
(***************************************************************************)
(* A model of the eliasfl-chess library (src/src/lib.rs) and of the tests  *)
(* that drive it (src/src/tests.rs).                                       *)
(*                                                                         *)
(* Representation                                                          *)
(*   String           a sequence of one-character strings, <<"e", "2">>   *)
(*   Option<T>        <<>> for None, <<x>> for Some(x)                     *)
(*   Result<T, E>     [ok |-> TRUE, val |-> x] for Ok(x),                  *)
(*                    [ok |-> FALSE, val |-> e] for Err(e)                 *)
(*   Color            "White" or "Black"                                   *)
(*   Piece            [kind |-> "King", color |-> "White"]                 *)
(*   Position         the number 10 * file + rank: 51 is e1 (file 5, rank 1) *)
(*   HashMap<K, V>    a function whose DOMAIN is the set of keys present   *)
(*   HashSet<T>       a set                                                *)
(*   Game             [board, active_color, promotion, state]              *)
(***************************************************************************)
EXTENDS Integers, Sequences, FiniteSets, TLC

VARIABLES game, ret, driver, pc

vars == <<game, ret, driver, pc>>

----------------------------------------------------------------------------
(* Option and Result values *)

None == <<>>

Some(x) == <<x>>

Ok(x) == [ok |-> TRUE, val |-> x]

Err(e) == [ok |-> FALSE, val |-> e]

\* A call that does not return: it panics with a message
Panic(msg) == [ok |-> FALSE, panic |-> msg]

IsPanic(r) == "panic" \in DOMAIN r

\* The values inside a set of Options (a loop of `if let Some(x) = ..  insert(x)`)
Somes(S) == {o[1] : o \in {x \in S : x # None}}

----------------------------------------------------------------------------
(* Characters and strings *)

Lowercase ==
  <<"a", "b", "c", "d", "e", "f", "g", "h", "i", "j", "k", "l", "m",
    "n", "o", "p", "q", "r", "s", "t", "u", "v", "w", "x", "y", "z">>

Uppercase ==
  <<"A", "B", "C", "D", "E", "F", "G", "H", "I", "J", "K", "L", "M",
    "N", "O", "P", "Q", "R", "S", "T", "U", "V", "W", "X", "Y", "Z">>

Digits == <<"0", "1", "2", "3", "4", "5", "6", "7", "8", "9">>

\* The code point of each character the model's strings are made of: ASCII,
\* and one character outside it
Ascii ==
  [c \in {Lowercase[i] : i \in 1..26} |-> 96 + (CHOOSE i \in 1..26 : Lowercase[i] = c)]
    @@ [c \in {Uppercase[i] : i \in 1..26} |-> 64 + (CHOOSE i \in 1..26 : Uppercase[i] = c)]
    @@ [c \in {Digits[i] : i \in 1..10} |-> 47 + (CHOOSE i \in 1..10 : Digits[i] = c)]
    @@ [c \in {"+"} |-> 43] @@ [c \in {"-"} |-> 45] @@ [c \in {" "} |-> 32]
    @@ [c \in {"é"} |-> 233]

\* `c as u8`
CharCode(c) == Ascii[c]

\* char::len_utf8: the bytes a character takes in a String
len_utf8(c) == IF CharCode(c) < 128 THEN 1 ELSE 2

IsLower(c) == CharCode(c) \in 97..122

IsUpper(c) == CharCode(c) \in 65..90

IsDigit(c) == CharCode(c) \in 48..57

\* char -> lower case (str::to_lowercase, one character at a time)
LowerChar(c) == IF IsUpper(c) THEN Lowercase[CharCode(c) - 64] ELSE c

\* A faulty to_lowercase: the text is left as it was written
to_lowercase_kept(s) == s

to_lowercase(s) == [i \in 1..Len(s) |-> LowerChar(s[i])]

\* String comparison (Ord for str): lexicographic by code point
RECURSIVE StrLess(_, _)
StrLess(a, b) ==
  IF b = <<>> THEN FALSE
  ELSE IF a = <<>> THEN TRUE
  ELSE IF CharCode(Head(a)) # CharCode(Head(b)) THEN CharCode(Head(a)) < CharCode(Head(b))
  ELSE StrLess(Tail(a), Tail(b))

\* str::parse::<u8>(): an optional '+', then one or more decimal digits, the
\* value at most 255; anything else is an error (None here)
RECURSIVE DigitsValue(_, _)
DigitsValue(s, acc) ==
  IF s = <<>> THEN Some(acc)
  ELSE IF ~IsDigit(Head(s)) THEN None
  ELSE LET v == acc * 10 + (CharCode(Head(s)) - 48)
       IN  IF v > 255 THEN None ELSE DigitsValue(Tail(s), v)

parse_u8(s) ==
  LET digits == IF s # <<>> /\ Head(s) = "+" THEN Tail(s) ELSE s
  IN  IF digits = <<>> THEN None ELSE DigitsValue(digits, 0)

----------------------------------------------------------------------------
(* Color, Piece, Position *)

Colors == {"White", "Black"}

Kinds == {"King", "Queen", "Rook", "Bishop", "Knight", "Pawn"}

Piece(kind, color) == [kind |-> kind, color |-> color]

\* Position { file, rank }
Pos(file, rank) == 10 * file + rank

\* position.file
File(pos) == pos \div 10

\* position.rank
Rank(pos) == pos % 10

\* Color::direction
direction(color) == IF color = "White" THEN 1 ELSE -1

\* impl Not for Color
Not(color) == IF color = "White" THEN "Black" ELSE "White"

\* Piece::color
color_of(piece) == piece.color

Abs(x) == IF x < 0 THEN -x ELSE x

Signum(x) == IF x > 0 THEN 1 ELSE IF x < 0 THEN -1 ELSE 0

Max(a, b) == IF a >= b THEN a ELSE b

Min(a, b) == IF a <= b THEN a ELSE b

\* The squares of the board
Squares == {Pos(f, r) : f \in 1..8, r \in 1..8}

\* Position::relative_pos
relative_pos(pos, file_offset, rank_offset) ==
  LET Offset(file, rank) ==
        IF file \in 1..8 /\ rank \in 1..8 THEN Some(Pos(file, rank)) ELSE None
  IN  Offset(File(pos) + file_offset, Rank(pos) + rank_offset)

\* Position::is_valid
is_valid(pos) == File(pos) \in 1..8 /\ Rank(pos) \in 1..8

\* Position::from_string: Ok(Position) or Err(message); `_from.split_at(1)`
\* panics when the first character takes more than one byte
from_string(_from) ==
  LET Parsed(_file, _rank) ==
        IF CharCode(_file) \notin 97..104
        THEN Err("Invalid file, should be in range [a, h]")
        ELSE IF _rank = None THEN Err("invalid digit found in string")
        ELSE IF _rank[1] \notin 1..8 THEN Err("Rank out of range: [1, 8]")
        ELSE Ok(Pos(CharCode(_file) - 96, _rank[1]))
  IN  IF Len(_from) < 2
      THEN Err("Position should consist of file and rank (at least 2 characters)")
      ELSE IF len_utf8(_from[1]) # 1
      THEN Panic("byte index 1 is not a char boundary")
      ELSE Parsed(LowerChar(_from[1]), parse_u8(Tail(_from)))

\* A faulty to_string: the rank is written before the file
to_string_rank_first(pos) ==
  << IF Rank(pos) \in 0..9 THEN Digits[Rank(pos) + 1] ELSE " ",
     IF File(pos) \in 1..26 THEN Lowercase[File(pos)] ELSE "?" >>

\* Position::to_string
to_string(pos) ==
  << IF File(pos) \in 1..26 THEN Lowercase[File(pos)] ELSE "?",
     IF Rank(pos) \in 0..9 THEN Digits[Rank(pos) + 1] ELSE " " >>

\* Piece::valid_destinations, one arm of the match per piece kind
KingDestinations(pos) ==
  Somes({relative_pos(pos, f, r) : f \in -1..1, r \in -1..1})

RookDestinations(pos) ==
  Somes({relative_pos(pos, file_offset, 0) : file_offset \in -8..8})
    \cup Somes({relative_pos(pos, 0, rank_offset) : rank_offset \in -8..8})

BishopDestinations(pos) ==
  Somes({relative_pos(pos, diag * d[1], diag * d[2]) :
           d \in {<<1, 1>>, <<1, -1>>, <<-1, 1>>, <<-1, -1>>}, diag \in 1..8})

KnightDestinations(pos) ==
  Somes({relative_pos(pos, o[1], o[2]) :
           o \in {<<2, 1>>, <<2, -1>>, <<-2, 1>>, <<-2, -1>>,
                  <<1, 2>>, <<1, -2>>, <<-1, 2>>, <<-1, -2>>}})

\* A faulty Pawn arm: two steps from every rank
PawnDestinationsTwoSteps(color, pos) ==
  Somes({relative_pos(pos, 0, i * direction(color)) : i \in 1..2})
    \cup Somes({relative_pos(pos, file_offset, direction(color)) : file_offset \in {-1, 1}})

PawnDestinations(color, pos) ==
  Somes({relative_pos(pos, 0, i * direction(color)) :
           i \in 1..(IF Rank(pos) \in {2, 7} THEN 2 ELSE 1)})
    \cup Somes({relative_pos(pos, file_offset, direction(color)) : file_offset \in {-1, 1}})

\* A faulty valid_destinations: the origin is not removed from the set
DestinationsOriginKept(piece, pos) ==
  CASE piece.kind = "King"   -> KingDestinations(pos)
    [] piece.kind = "Queen"  -> RookDestinations(pos) \cup BishopDestinations(pos)
    [] piece.kind = "Rook"   -> RookDestinations(pos)
    [] piece.kind = "Bishop" -> BishopDestinations(pos)
    [] piece.kind = "Knight" -> KnightDestinations(pos)
    [] piece.kind = "Pawn"   -> PawnDestinations(piece.color, pos)

\* Piece::valid_destinations: the match on the piece kind, the origin removed
Destinations(piece, pos) ==
  (CASE piece.kind = "King"   -> KingDestinations(pos)
     [] piece.kind = "Queen"  -> RookDestinations(pos) \cup BishopDestinations(pos)
     [] piece.kind = "Rook"   -> RookDestinations(pos)
     [] piece.kind = "Bishop" -> BishopDestinations(pos)
     [] piece.kind = "Knight" -> KnightDestinations(pos)
     [] piece.kind = "Pawn"   -> PawnDestinations(piece.color, pos)) \ {pos}

\* valid_destinations depends on the piece and the square only: its value for
\* each of them, computed once
DestinationTable ==
  [kind \in Kinds |-> [color \in Colors |-> [pos \in {Pos(f, r) : f \in 1..8, r \in 1..8} |->
     Destinations(Piece(kind, color), pos)]]]

\* piece.valid_destinations(position)
valid_destinations(piece, pos) == DestinationTable[piece.kind][piece.color][pos]

----------------------------------------------------------------------------
(* Game *)

\* HashMap::get
Get(board, pos) == IF pos \in DOMAIN board THEN Some(board[pos]) ELSE None

\* HashMap::insert (the map afterwards)
Insert(board, pos, piece) ==
  [p \in DOMAIN board \cup {pos} |-> IF p = pos THEN piece ELSE board[p]]

\* HashMap::remove (the map afterwards)
Remove(board, pos) == [p \in DOMAIN board \ {pos} |-> board[p]]

BackRank == <<"Rook", "Knight", "Bishop", "Queen", "King", "Bishop", "Knight", "Rook">>

\* A faulty Game::new: king and queen stand on each other's file
new_king_on_d ==
  LET swapped == <<"Rook", "Knight", "Bishop", "King", "Queen", "Bishop", "Knight", "Rook">>
  IN  [board        |-> [p \in {Pos(f, r) : f \in 1..8, r \in {1, 2, 7, 8}} |->
                           CASE Rank(p) = 1 -> Piece(swapped[File(p)], "White")
                             [] Rank(p) = 8 -> Piece(swapped[File(p)], "Black")
                             [] Rank(p) = 2 -> Piece("Pawn", "White")
                             [] Rank(p) = 7 -> Piece("Pawn", "Black")],
       state        |-> "InProgress",
       active_color |-> "White",
       promotion    |-> <<Piece("Queen", "White"), Piece("Queen", "Black")>>]

\* Game::new
new ==
  LET starting_board ==
        [p \in {Pos(f, r) : f \in 1..8, r \in {1, 2, 7, 8}} |->
           CASE Rank(p) = 1 -> Piece(BackRank[File(p)], "White")
             [] Rank(p) = 8 -> Piece(BackRank[File(p)], "Black")
             [] Rank(p) = 2 -> Piece("Pawn", "White")
             [] Rank(p) = 7 -> Piece("Pawn", "Black")]
  IN  [board        |-> starting_board,
       state        |-> "InProgress",
       active_color |-> "White",
       promotion    |-> <<Piece("Queen", "White"), Piece("Queen", "Black")>>]

\* A faulty Bishop arm: only the square next to the origin is looked at
BishopInWayNextOnly(self, position, destination) ==
  LET Walk(file, rank) ==
        \E offset \in 1..Min(1, Max(Abs(file), Abs(rank)) - 1) :
          LET Occupied(between_pos) ==
                between_pos # None /\ Get(self.board, between_pos[1]) # None
          IN  Occupied(relative_pos(position, offset * Signum(file), offset * Signum(rank)))
  IN  Walk(File(destination) - File(position), Rank(destination) - Rank(position))

\* Game::_is_piece_in_way, the Bishop arm
BishopInWay(self, position, destination) ==
  LET Walk(file, rank) ==
        \E offset \in 1..(Max(Abs(file), Abs(rank)) - 1) :
          LET Occupied(between_pos) ==
                between_pos # None /\ Get(self.board, between_pos[1]) # None
          IN  Occupied(relative_pos(position, offset * Signum(file), offset * Signum(rank)))
  IN  Walk(File(destination) - File(position), Rank(destination) - Rank(position))

\* A faulty Rook | Pawn arm: the squares between are never looked at
RookInWayNever(self, position, destination) == FALSE

\* Game::_is_piece_in_way, the Rook | Pawn arm
RookInWay(self, position, destination) ==
  \/ /\ File(position) = File(destination)
     /\ \E between \in (Min(Rank(position), Rank(destination)) + 1)
                         ..(Max(Rank(position), Rank(destination)) - 1) :
          Get(self.board, Pos(File(position), between)) # None
  \/ /\ Rank(position) = Rank(destination)
     /\ \E between \in (Min(File(position), File(destination)) + 1)
                         ..(Max(File(position), File(destination)) - 1) :
          Get(self.board, Pos(between, Rank(position))) # None

\* Game::_is_piece_in_way
_is_piece_in_way(self, piece, position, destination) ==
  CASE piece.kind \in {"Knight", "King"} -> FALSE
    [] piece.kind = "Queen" ->
         BishopInWay(self, position, destination) \/ RookInWay(self, position, destination)
    [] piece.kind = "Bishop" -> BishopInWay(self, position, destination)
    [] piece.kind \in {"Rook", "Pawn"} -> RookInWay(self, position, destination)

\* Game::_get_possible_moves: None, or Some(set of destinations)
_get_possible_moves(self, position) ==
  LET Retain(piece) ==
        {destination \in valid_destinations(piece, position) :
           IF Get(self.board, destination) # None
           THEN IF piece.kind = "Pawn" /\ File(position) = File(destination)
                THEN FALSE
                ELSE /\ color_of(self.board[destination]) # color_of(piece)
                     /\ ~_is_piece_in_way(self, piece, position, destination)
           ELSE IF piece.kind = "Pawn"
                THEN /\ File(position) = File(destination)
                     /\ ~_is_piece_in_way(self, piece, position, destination)
                ELSE ~_is_piece_in_way(self, piece, position, destination)}
  IN  IF Get(self.board, position) = None THEN None
      ELSE Some(Retain(self.board[position]))

\* A faulty _threatens_king: no piece is ever seen to attack a king
_threatens_king_never(self, position, color) == FALSE

\* Game::_threatens_king
_threatens_king(self, position, color) ==
  LET Threat(moves) ==
        /\ moves # None
        /\ \E mov \in moves[1] :
             /\ Get(self.board, mov) # None
             /\ self.board[mov].kind = "King"
             /\ self.board[mov].color = color
  IN  Threat(_get_possible_moves(self, position))

\* A faulty _king_is_threatened: no king is ever found threatened
_king_is_threatened_never(self, color) == FALSE

\* A faulty _king_is_threatened: the bishops are left out of the scan
_king_is_threatened_no_bishops(self, color) ==
  \E position \in DOMAIN self.board :
    /\ color_of(self.board[position]) # color
    /\ self.board[position].kind # "Bishop"
    /\ _threatens_king(self, position, color)

\* A faulty _king_is_threatened: the queens are left out of the scan
_king_is_threatened_no_queens(self, color) ==
  \E position \in DOMAIN self.board :
    /\ color_of(self.board[position]) # color
    /\ self.board[position].kind # "Queen"
    /\ _threatens_king(self, position, color)

\* Game::_king_is_threatened
_king_is_threatened(self, color) ==
  \E position \in DOMAIN self.board :
    /\ color_of(self.board[position]) # color
    /\ _threatens_king(self, position, color)

\* A faulty choice of the piece to put down: a pawn is never promoted
NewPieceUnpromoted(self, piece, to) == piece

\* A faulty choice of the piece to put down: a pawn is promoted on rank 1 only
NewPieceRank1Only(self, piece, to) ==
  LET Find(found) ==
        IF found # {}
        THEN self.promotion[CHOOSE i \in found : \A j \in found : i <= j]
        ELSE Piece("Queen", self.active_color)
  IN  IF Rank(to) = 1 /\ piece.kind = "Pawn"
      THEN Find({i \in 1..Len(self.promotion) :
                   color_of(self.promotion[i]) = self.active_color})
      ELSE piece

\* Game::make_move, the piece to put on the destination (`let new_piece = ..`)
NewPiece(self, piece, to) ==
  LET Find(found) ==
        IF found # {}
        THEN self.promotion[CHOOSE i \in found : \A j \in found : i <= j]
        ELSE Piece("Queen", self.active_color)
  IN  IF Rank(to) \in {1, 8} /\ piece.kind = "Pawn"
      THEN Find({i \in 1..Len(self.promotion) :
                   color_of(self.promotion[i]) = self.active_color})
      ELSE piece

\* A faulty piece move: the piece is put on the destination and stays on the origin
MovePieceOriginKept(self, from, to, new_piece) ==
  [self EXCEPT !.board = Insert(self.board, to, new_piece)]

\* Game::make_move, "Actual piece move": insert at the destination, remove the origin
MovePiece(self, from, to, new_piece) ==
  [self EXCEPT !.board = Remove(Insert(self.board, to, new_piece), from)]

\* A faulty Rollback: the board is left as the rejected move made it
RollbackNothing(self, before_move) == self

\* Game::make_move, own king threatened after the move: `self.board = before_move`
Rollback(self, before_move) == [self EXCEPT !.board = before_move]

\* A faulty end of a move: the turn changes before the check for Check, so the
\* king looked at is the mover's own
FinishMoveTurnFirst(self) ==
  LET Check(turned) ==
        IF _king_is_threatened(turned, Not(turned.active_color))
        THEN [turned EXCEPT !.state = "Check"]
        ELSE turned
  IN  Check([self EXCEPT !.state = "InProgress", !.active_color = Not(self.active_color)])

\* A faulty end of a move: the turn stays with the mover
FinishMoveTurnKept(self) ==
  IF _king_is_threatened(self, Not(self.active_color))
  THEN [self EXCEPT !.state = "Check"]
  ELSE [self EXCEPT !.state = "InProgress"]

\* Game::make_move, the end of a successful move: status, then the turn
FinishMove(self) ==
  LET Turn(checked) == [checked EXCEPT !.active_color = Not(checked.active_color)]
      Check(progress) ==
        IF _king_is_threatened(progress, Not(progress.active_color))
        THEN [progress EXCEPT !.state = "Check"]
        ELSE progress
  IN  Turn(Check([self EXCEPT !.state = "InProgress"]))

\* Game::make_move: the Game afterwards and the Result returned
make_move(self, _from, _to) ==
  LET Moved(before_move, removed, moved) ==
        IF _king_is_threatened(moved, moved.active_color)
        THEN [game |-> Rollback(moved, before_move), res |-> Err("Move threatens own king")]
        ELSE [game |-> FinishMove(moved), res |-> Ok(removed)]
      Possible(from, to, piece, possible_moves) ==
        IF possible_moves = None
        THEN [game |-> self, res |-> Err("No possible moves")]
        ELSE IF to \notin possible_moves[1]
        THEN [game |-> self, res |-> Err("Destination move is invalid")]
        ELSE IF Get(self.board, to) # None /\ self.board[to].kind = "King"
        THEN [game |-> self, res |-> Err("Cannot capture king")]
        ELSE Moved(self.board, Get(self.board, to),
                   MovePiece(self, from, to, NewPiece(self, piece, to)))
      Parsed(from, to) ==
        IF IsPanic(from) THEN [game |-> self, res |-> from]
        ELSE IF IsPanic(to) THEN [game |-> self, res |-> to]
        ELSE IF ~(from.ok /\ to.ok)
        THEN [game |-> self, res |-> Err("Invalid position(s)")]
        ELSE IF Get(self.board, from.val) = None
        THEN [game |-> self, res |-> Err("No piece in position(s)")]
        ELSE IF color_of(self.board[from.val]) # self.active_color
        THEN [game |-> self, res |-> Err("Trying to move opponents piece")]
        ELSE Possible(from.val, to.val, self.board[from.val],
                      _get_possible_moves(self, from_string(_from).val))
  IN  Parsed(from_string(_from), from_string(_to))

\* A faulty _ok_to_make_move: no move is taken to be ok
_ok_to_make_move_never(self, from, to) == FALSE

\* A faulty _ok_to_make_move: the move is tried whatever the colour of the piece
_ok_to_make_move_any_colour(self, from, to) ==
  make_move(self, to_string(from), to_string(to)).res.ok

\* A faulty _ok_to_make_move: every destination passes the king-safety filter
_ok_to_make_move_always(self, from, to) == TRUE

\* Game::_ok_to_make_move
_ok_to_make_move(self, from, to) ==
  IF self.active_color # color_of(self.board[from])
  THEN TRUE
  ELSE make_move(self, to_string(from), to_string(to)).res.ok

\* Iterating a HashSet: its elements once each, in an order that is not the
\* order of their texts (here from the largest position down); what is built
\* from the iteration is sorted before it is returned
RECURSIVE Iter(_)
Iter(S) ==
  LET Then(x) == <<x>> \o Iter(S \ {x})
  IN  IF S = {} THEN <<>> ELSE Then(CHOOSE y \in S : \A z \in S : z <= y)

\* [String]::sort_unstable, by insertion
RECURSIVE InsertSorted(_, _)
InsertSorted(sorted, s) ==
  IF sorted = <<>> THEN <<s>>
  ELSE IF StrLess(s, Head(sorted)) THEN <<s>> \o sorted
  ELSE <<Head(sorted)>> \o InsertSorted(Tail(sorted), s)

\* A faulty sort: the vector is left in the order of the iteration
sort_unstable_skipped(v) == v

RECURSIVE sort_unstable(_)
sort_unstable(v) ==
  IF v = <<>> THEN <<>> ELSE InsertSorted(sort_unstable(Tail(v)), Head(v))

\* A faulty get_possible_moves: the destinations that hold a king are kept
get_possible_moves_kings_kept(self, _position) ==
  LET Strings(order) == [i \in 1..Len(order) |-> to_string(order[i])]
      Retain(position, moves) == {_p \in moves : _ok_to_make_move(self, position, _p)}
      Moves(position, moves) ==
        IF moves = None THEN None
        ELSE Some(sort_unstable(Strings(Iter(Retain(position, moves[1])))))
      Parsed(position) ==
        IF IsPanic(position) THEN position
        ELSE IF ~position.ok THEN None
        ELSE Moves(position.val, _get_possible_moves(self, position.val))
  IN  Parsed(from_string(_position))

\* Game::get_possible_moves: None, or Some(sorted sequence of destination texts)
get_possible_moves(self, _position) ==
  LET Strings(order) == [i \in 1..Len(order) |-> to_string(order[i])]
      Retain(position, moves) ==
        {_p \in {_q \in moves :
                   ~(Get(self.board, _q) # None /\ self.board[_q].kind = "King")} :
           _ok_to_make_move(self, position, _p)}
      Moves(position, moves) ==
        IF moves = None THEN None
        ELSE Some(sort_unstable(Strings(Iter(Retain(position, moves[1])))))
      Parsed(position) ==
        IF IsPanic(position) THEN position
        ELSE IF ~position.ok THEN None
        ELSE Moves(position.val, _get_possible_moves(self, position.val))
  IN  Parsed(from_string(_position))

\* A faulty _is_checkmate: only the king's own moves are looked at
_is_checkmate_king_only(self, color) ==
  \A position \in {p \in DOMAIN self.board :
                     color_of(self.board[p]) = color /\ self.board[p].kind = "King"} :
    get_possible_moves(self, to_string(position)) \in {None, Some(<<>>)}

\* Game::_is_checkmate
_is_checkmate(self, color) ==
  \A position \in {p \in DOMAIN self.board : color_of(self.board[p]) = color} :
    LET NoMove(moves) == ~(moves # None /\ Len(moves[1]) > 0)
    IN  NoMove(get_possible_moves(self, to_string(position)))

\* A faulty set_promotion: "king" is taken as a promotion piece too
set_promotion_any_piece(self, _piece) ==
  LET Named(name) ==
        CASE name = <<"q", "u", "e", "e", "n">>      -> Some("Queen")
          [] name = <<"r", "o", "o", "k">>           -> Some("Rook")
          [] name = <<"b", "i", "s", "h", "o", "p">> -> Some("Bishop")
          [] name = <<"k", "n", "i", "g", "h", "t">> -> Some("Knight")
          [] name = <<"k", "i", "n", "g">>           -> Some("King")
          [] OTHER -> None
      Set(color, slot, kind) ==
        IF kind = None THEN [game |-> self, res |-> Err("Invalid promotion piece")]
        ELSE [game |-> [self EXCEPT !.promotion[slot] = Piece(kind[1], color)],
              res  |-> Ok(<<>>)]
  IN  Set(self.active_color,
          CHOOSE i \in 1..Len(self.promotion) : color_of(self.promotion[i]) = self.active_color,
          Named(to_lowercase(_piece)))

\* Game::set_promotion: the Game afterwards and the Result returned
set_promotion(self, _piece) ==
  LET Named(name) ==
        CASE name = <<"q", "u", "e", "e", "n">>      -> Some("Queen")
          [] name = <<"r", "o", "o", "k">>           -> Some("Rook")
          [] name = <<"b", "i", "s", "h", "o", "p">> -> Some("Bishop")
          [] name = <<"k", "n", "i", "g", "h", "t">> -> Some("Knight")
          [] OTHER -> None
      Set(color, slots, kind) ==
        IF slots = {} THEN [game |-> self, res |-> Ok(<<>>)]
        ELSE IF kind = None THEN [game |-> self, res |-> Err("Invalid promotion piece")]
        ELSE [game |-> [self EXCEPT !.promotion[CHOOSE i \in slots : \A j \in slots : i <= j] =
                                       Piece(kind[1], color)],
              res  |-> Ok(<<>>)]
  IN  Set(self.active_color,
          {i \in 1..Len(self.promotion) : color_of(self.promotion[i]) = self.active_color},
          Named(to_lowercase(_piece)))

\* A faulty get_game_state: the status is returned as it was before the call
get_game_state_stale(self) ==
  [game |-> IF _is_checkmate(self, self.active_color)
            THEN [self EXCEPT !.state = "CheckMate"]
            ELSE self,
   res  |-> self.state]

\* Game::get_game_state: the Game afterwards and the GameState returned
get_game_state(self) ==
  LET Return(after) == [game |-> after, res |-> after.state]
  IN  Return(IF _is_checkmate(self, self.active_color)
             THEN [self EXCEPT !.state = "CheckMate"]
             ELSE self)

----------------------------------------------------------------------------
(* The exported wrappers (#[wasm_bindgen]) and the JSON they exchange *)

\* serde_json::to_string(&game): the JSON document of a Game; the board is
\* written as an array of [position, piece] pairs (serde_as Vec<(_, _)>), a
\* position as {"file": _, "rank": _}, a piece as {kind: colour}
serialize_game(self) ==
  LET order == Iter(DOMAIN self.board)
      Pair(p) == << [file |-> File(p), rank |-> Rank(p)],
                    <<self.board[p].kind, self.board[p].color>> >>
  IN  [board        |-> [i \in 1..Len(order) |-> Pair(order[i])],
       active_color |-> self.active_color,
       promotion    |-> [i \in 1..Len(self.promotion) |->
                           <<self.promotion[i].kind, self.promotion[i].color>>],
       state        |-> self.state]

\* serde_json::from_str::<Game>(json): the Game of a JSON document
deserialize_game(json) ==
  LET At_(i) == Pos(json.board[i][1].file, json.board[i][1].rank)
      Of(p)  == json.board[CHOOSE i \in 1..Len(json.board) :
                             /\ At_(i) = p
                             /\ \A j \in 1..Len(json.board) : At_(j) = p => j <= i][2]
  IN  [board        |-> [p \in {At_(i) : i \in 1..Len(json.board)} |->
                           Piece(Of(p)[1], Of(p)[2])],
       state        |-> json.state,
       active_color |-> json.active_color,
       promotion    |-> [i \in 1..Len(json.promotion) |->
                           Piece(json.promotion[i][1], json.promotion[i][2])]]

\* serde_json::to_string(&moves) of a Vec<String>: the text of a JSON array of
\* strings
RECURSIVE serialize_moves_from(_, _)
serialize_moves_from(moves, i) ==
  IF i > Len(moves) THEN <<>>
  ELSE (IF i > 1 THEN <<",">> ELSE <<>>) \o <<"\"">> \o moves[i] \o <<"\"">>
         \o serialize_moves_from(moves, i + 1)

serialize_moves(moves) == <<"[">> \o serialize_moves_from(moves, 1) \o <<"]">>

\* new_game()
new_game == serialize_game(new)

\* get_possible_moves(json, pos), the exported wrapper: the JSON text returned;
\* a panic of Position::from_string in Game::get_possible_moves unwinds through it
wasm_get_possible_moves(json, pos) ==
  LET Answer(moves) ==
        IF moves # None THEN serialize_moves(moves[1])
        ELSE serialize_moves(<<>>)
      Called(position) ==
        IF IsPanic(position) THEN position
        ELSE Answer(get_possible_moves(deserialize_game(json), pos))
  IN  Called(from_string(pos))

----------------------------------------------------------------------------
(* The callers: a client of the public API, and the tests of tests.rs *)

\* The most moves a client makes in one game
MaxMoves == 9

\* The square texts a client passes: the squares of a king's-side skirmish
\* (pawn runs, queen sorties, captures, checks, a promotion on g8), in either
\* case of the file letter, and two texts that are no square
Texts ==
  { <<"g", "2">>, <<"g", "4">>, <<"g", "5">>, <<"g", "6">>, <<"h", "7">>, <<"g", "8">>,
    <<"E", "7">>, <<"e", "5">>, <<"d", "8">>, <<"h", "4">>, <<"f", "2">>, <<"E", "1">>,
    <<"k", "1", "5">>, <<"e">> }

\* The piece names a client passes to set_promotion
PromotionNames == { <<"K", "n", "i", "g", "h", "t">>, <<"k", "i", "n", "g">> }

\* tests.rs, fools_mate: `let moves = ..`
FoolsMateMoves ==
  << <<<<"f", "2">>, <<"f", "3">>>>, <<<<"e", "7">>, <<"e", "5">>>>,
     <<<<"g", "2">>, <<"g", "4">>>>, <<<<"d", "8">>, <<"h", "4">>>> >>

\* tests.rs, scholars_mate: `let moves = ..`
ScholarsMateMoves ==
  << <<<<"e", "2">>, <<"e", "4">>>>, <<<<"e", "7">>, <<"e", "5">>>>,
     <<<<"d", "1">>, <<"h", "5">>>>, <<<<"b", "8">>, <<"c", "6">>>>,
     <<<<"f", "1">>, <<"c", "4">>>>, <<<<"g", "8">>, <<"f", "6">>>>,
     <<<<"h", "5">>, <<"f", "7">>>> >>

\* tests.rs, promotion: `let moves = ..`
PromotionMoves ==
  << <<<<"a", "2">>, <<"a", "4">>>>, <<<<"b", "7">>, <<"b", "5">>>>,
     <<<<"a", "4">>, <<"b", "5">>>>, <<<<"b", "8">>, <<"a", "6">>>>,
     <<<<"b", "5">>, <<"b", "6">>>>, <<<<"a", "6">>, <<"b", "4">>>>,
     <<<<"b", "6">>, <<"b", "7">>>>, <<<<"b", "4">>, <<"d", "5">>>>,
     <<<<"b", "7">>, <<"b", "8">>>> >>

\* The shortest game that ends with the side to move unthreatened and without
\* a move (ten moves of White, nine of Black), as a client plays it
StalemateMoves ==
  << <<<<"e", "2">>, <<"e", "3">>>>, <<<<"a", "7">>, <<"a", "5">>>>,
     <<<<"d", "1">>, <<"h", "5">>>>, <<<<"a", "8">>, <<"a", "6">>>>,
     <<<<"h", "5">>, <<"a", "5">>>>, <<<<"h", "7">>, <<"h", "5">>>>,
     <<<<"h", "2">>, <<"h", "4">>>>, <<<<"a", "6">>, <<"h", "6">>>>,
     <<<<"a", "5">>, <<"c", "7">>>>, <<<<"f", "7">>, <<"f", "6">>>>,
     <<<<"c", "7">>, <<"d", "7">>>>, <<<<"e", "8">>, <<"f", "7">>>>,
     <<<<"d", "7">>, <<"b", "7">>>>, <<<<"d", "8">>, <<"d", "3">>>>,
     <<<<"b", "7">>, <<"b", "8">>>>, <<<<"d", "3">>, <<"h", "7">>>>,
     <<<<"b", "8">>, <<"c", "8">>>>, <<<<"f", "7">>, <<"g", "6">>>>,
     <<<<"c", "8">>, <<"e", "6">>>> >>

Tests ==
  {"game_in_progress_after_init", "fools_mate", "scholars_mate", "promotion",
   "possible_moves", "piece_in_way"}

Drivers == {"client", "stalemate_game", "mated_client"} \cup Tests

At(at, i) == [at |-> at, i |-> i]

Call(op, res) == [op |-> op, res |-> res]

Init ==
  /\ game = new
  /\ ret = Call("new", None)
  /\ driver \in Drivers
  /\ pc = At(IF driver = "client" THEN "calls" ELSE "start", 0)

\* The caller is a client that calls the public methods in any order: from a
\* new game, or from the position its own moves have led to
Client == driver = "client" \/ (driver = "mated_client" /\ pc.at = "calls")

\* A client calls Game::make_move
MakeMove ==
  /\ Client
  /\ pc.i < MaxMoves
  /\ \E _from \in Texts, _to \in Texts :
       LET Return(r) ==
             /\ game' = r.game
             /\ ret' = Call("make_move", r.res)
             /\ pc' = IF r.res.ok THEN At("calls", pc.i + 1) ELSE pc
       IN  Return(make_move(game, _from, _to))
  /\ UNCHANGED driver

\* A client calls Game::get_possible_moves (&self: the Game is not written)
GetPossibleMoves ==
  /\ Client
  /\ \E _position \in Texts :
       ret' = Call("get_possible_moves", get_possible_moves(game, _position))
  /\ UNCHANGED <<game, driver, pc>>

\* A client calls Game::set_promotion
SetPromotion ==
  /\ Client
  /\ \E _piece \in PromotionNames :
       LET Return(r) ==
             /\ game' = r.game
             /\ ret' = Call("set_promotion", r.res)
       IN  Return(set_promotion(game, _piece))
  /\ UNCHANGED <<driver, pc>>

\* A client calls Game::get_game_state
GetGameState ==
  /\ Client
  /\ LET Return(r) ==
           /\ game' = r.game
           /\ ret' = Call("get_game_state", r.res)
     IN  Return(get_game_state(game))
  /\ UNCHANGED <<driver, pc>>

\* `game.make_move(from, to).unwrap()` for the next pair of a sequence of moves:
\* a rejected move ends the sequence
UnwrapMove(moves) ==
  /\ pc.at = "moves"
  /\ pc.i < Len(moves)
  /\ LET Return(r) ==
           /\ game' = r.game
           /\ ret' = Call("make_move", r.res)
           /\ pc' = IF ~r.res.ok THEN At("panicked", pc.i)
                    ELSE IF pc.i + 1 = Len(moves) THEN At("assert", pc.i + 1)
                    ELSE At("moves", pc.i + 1)
     IN  Return(make_move(game, moves[pc.i + 1][1], moves[pc.i + 1][2]))

\* `assert_eq!(game.get_game_state(), expected)`
AssertState(expected) ==
  /\ pc.at = "assert"
  /\ LET Return(r) ==
           /\ game' = r.game
           /\ ret' = Call("get_game_state", r.res)
           /\ pc' = At(IF r.res = expected THEN "passed" ELSE "failed", pc.i)
     IN  Return(get_game_state(game))

\* tests.rs, game_in_progress_after_init
game_in_progress_after_init ==
  /\ driver = "game_in_progress_after_init"
  /\ \/ pc.at = "start" /\ pc' = At("assert", 0) /\ UNCHANGED <<game, ret>>
     \/ AssertState("InProgress")
  /\ UNCHANGED driver

\* tests.rs, fools_mate
fools_mate ==
  /\ driver = "fools_mate"
  /\ \/ pc.at = "start" /\ pc' = At("moves", 0) /\ UNCHANGED <<game, ret>>
     \/ UnwrapMove(FoolsMateMoves)
     \/ AssertState("CheckMate")
  /\ UNCHANGED driver

\* tests.rs, scholars_mate
scholars_mate ==
  /\ driver = "scholars_mate"
  /\ \/ pc.at = "start" /\ pc' = At("moves", 0) /\ UNCHANGED <<game, ret>>
     \/ UnwrapMove(ScholarsMateMoves)
     \/ AssertState("CheckMate")
  /\ UNCHANGED driver

\* tests.rs, promotion
promotion ==
  /\ driver = "promotion"
  /\ \/ /\ pc.at = "start"
        /\ LET Return(r) ==
                 /\ game' = r.game
                 /\ ret' = Call("set_promotion", r.res)
                 /\ pc' = At(IF r.res.ok THEN "moves" ELSE "panicked", 0)
           IN  Return(set_promotion(game, <<"k", "n", "i", "g", "h", "t">>))
     \/ UnwrapMove(PromotionMoves)
     \/ /\ pc.at = "assert"
        /\ pc' = At(IF Get(game.board, Pos(2, 8)) = Some(Piece("Knight", "White"))
                    THEN "passed" ELSE "failed", pc.i)
        /\ UNCHANGED <<game, ret>>
  /\ UNCHANGED driver

\* One `assert!` of a test that has `last + 1` of them: the call it makes and
\* whether what it asserts holds
AssertThat(last, op, res, holds) ==
  /\ ret' = Call(op, res)
  /\ pc' = IF ~holds THEN At("failed", pc.i)
           ELSE IF pc.i = last THEN At("passed", pc.i + 1)
           ELSE At("asserts", pc.i + 1)

\* tests.rs, possible_moves
possible_moves ==
  /\ driver = "possible_moves"
  /\ \/ pc.at = "start" /\ pc' = At("asserts", 0) /\ UNCHANGED <<game, ret>>
     \/ /\ pc.at = "asserts"
        /\ pc.i \in {1, 2}
        /\ LET Eq(moves, expected) ==
                 AssertThat(4, "_get_possible_moves", moves, moves = Some(expected))
           IN  IF pc.i = 1
               THEN Eq(_get_possible_moves(game, Pos(3, 2)), {Pos(3, 4), Pos(3, 3)})
               ELSE Eq(_get_possible_moves(game, Pos(6, 7)), {Pos(6, 6), Pos(6, 5)})
        /\ UNCHANGED game
     \/ /\ pc.at = "asserts"
        /\ pc.i \in {0, 3, 4}
        /\ LET Unwrapped(moves) ==
                 IF moves = None
                 THEN ret' = Call("get_possible_moves", moves) /\ pc' = At("panicked", pc.i)
                 ELSE AssertThat(4, "get_possible_moves", moves, Len(moves[1]) = 0)
               Checked(moves) ==
                 CASE pc.i = 0 -> AssertThat(4, "get_possible_moves", moves, moves = Some(<<>>))
                   [] pc.i = 3 -> AssertThat(4, "get_possible_moves", moves, moves = None)
                   [] pc.i = 4 -> Unwrapped(moves)
           IN  Checked(get_possible_moves(game, IF pc.i = 3 THEN <<"c", "5">> ELSE <<"e", "1">>))
        /\ UNCHANGED game
  /\ UNCHANGED driver

\* tests.rs, piece_in_way
piece_in_way ==
  /\ driver = "piece_in_way"
  /\ \/ pc.at = "start" /\ pc' = At("asserts", 0) /\ UNCHANGED <<game, ret>>
     \/ /\ pc.at = "asserts"
        /\ LET IsTrue(res) == AssertThat(0, "_is_piece_in_way", res, res)
           IN  IsTrue(_is_piece_in_way(game, Piece("Bishop", "White"), Pos(6, 1), Pos(8, 3)))
        /\ UNCHANGED game
  /\ UNCHANGED driver

\* A client plays the moves of StalemateMoves, then calls Game::get_game_state
stalemate_game ==
  /\ driver = "stalemate_game"
  /\ \/ pc.at = "start" /\ pc' = At("moves", 0) /\ UNCHANGED <<game, ret>>
     \/ UnwrapMove(StalemateMoves)
     \/ /\ pc.at = "assert"
        /\ LET Return(r) ==
                 /\ game' = r.game
                 /\ ret' = Call("get_game_state", r.res)
                 /\ pc' = At("done", pc.i)
           IN  Return(get_game_state(game))
  /\ UNCHANGED driver

\* A client plays the moves of FoolsMateMoves and keeps calling the public
\* methods afterwards
mated_client ==
  /\ driver = "mated_client"
  /\ \/ pc.at = "start" /\ pc' = At("moves", 0) /\ UNCHANGED <<game, ret>>
     \/ UnwrapMove(FoolsMateMoves)
     \/ pc.at = "assert" /\ pc' = At("calls", pc.i) /\ UNCHANGED <<game, ret>>
  /\ UNCHANGED driver

Next ==
  \/ MakeMove
  \/ GetPossibleMoves
  \/ SetPromotion
  \/ GetGameState
  \/ game_in_progress_after_init
  \/ fools_mate
  \/ scholars_mate
  \/ promotion
  \/ possible_moves
  \/ piece_in_way
  \/ stalemate_game
  \/ mated_client

Spec == Init /\ [][Next]_vars

----------------------------------------------------------------------------
(* The callers of the functions of Position and Piece *)

\* The longest text given to Position::from_string
MaxLen == 3

\* The characters of those texts: file letters in either case, letters outside
\* a..h, digits inside and outside 1..8, a sign, a character of two bytes
ParseChars == {"a", "h", "A", "H", "i", "k", "0", "1", "8", "9", "+", "é"}

ParseTexts ==
  UNION {[1..n -> ParseChars] : n \in 0..MaxLen}
    \cup {<<"a", "2", "5", "6">>, <<"a", "0", "0", "8">>, <<"k", "1", "5">>}

FnInit ==
  /\ game = new
  /\ ret = Call("new", None)
  /\ driver = "functions"
  /\ pc = At("calls", 0)

\* A caller of Position::from_string
PositionFromString ==
  /\ pc.at = "calls"
  /\ \E text \in ParseTexts :
       ret' = Call("from_string", [text |-> text, out |-> from_string(text)])
  /\ pc' = At("returned", 0)
  /\ UNCHANGED <<game, driver>>

\* A caller of Position::to_string
PositionToString ==
  /\ pc.at = "calls"
  /\ \E position \in Squares :
       ret' = Call("to_string", [position |-> position, out |-> to_string(position)])
  /\ pc' = At("returned", 0)
  /\ UNCHANGED <<game, driver>>

\* A caller of Piece::valid_destinations
PieceValidDestinations ==
  /\ pc.at = "calls"
  /\ \E kind \in Kinds, color \in Colors, position \in Squares :
       ret' = Call("valid_destinations",
                   [piece |-> Piece(kind, color), position |-> position,
                    out |-> valid_destinations(Piece(kind, color), position)])
  /\ pc' = At("returned", 0)
  /\ UNCHANGED <<game, driver>>

\* The largest offset given to Position::relative_pos, in either direction
MaxOffset == 8

\* A caller of Position::relative_pos
PositionRelativePos ==
  /\ pc.at = "calls"
  /\ \E position \in Squares, file_offset \in -MaxOffset..MaxOffset,
        rank_offset \in -MaxOffset..MaxOffset :
       ret' = Call("relative_pos",
                   [position |-> position, file_offset |-> file_offset,
                    rank_offset |-> rank_offset,
                    out |-> relative_pos(position, file_offset, rank_offset)])
  /\ pc' = At("returned", 0)
  /\ UNCHANGED <<game, driver>>

\* A caller of the exported get_possible_moves, with the JSON of a new game
WasmGetPossibleMoves ==
  /\ pc.at = "calls"
  /\ \E pos \in ParseTexts :
       ret' = Call("wasm_get_possible_moves",
                   [json |-> new_game, pos |-> pos,
                    out |-> wasm_get_possible_moves(new_game, pos)])
  /\ pc' = At("returned", 0)
  /\ UNCHANGED <<game, driver>>

FnNext ==
  \/ PositionFromString
  \/ PositionToString
  \/ PieceValidDestinations
  \/ PositionRelativePos
  \/ WasmGetPossibleMoves

FnSpec == FnInit /\ [][FnNext]_vars

----------------------------------------------------------------------------
(* Properties *)

\* Position text -> Position, for a text that is a square
Square(text) == from_string(text).val

\* The slot of Game::promotion that holds a colour's promotion piece
Slot(self, color) ==
  self.promotion[CHOOSE i \in 1..Len(self.promotion) : color_of(self.promotion[i]) = color]

\* C1: every make_move call that returns an error (malformed square, empty
\* source, opponent's piece, destination not allowed, destination holds a king,
\* move leaves the own king threatened) leaves the whole Game as it was before
\* the call: board, active colour, promotion slots and cached status
C1_FailedMoveLeavesGameUnchanged ==
  [][(ret'.op = "make_move" /\ ~ret'.res.ok) => game' = game]_vars

\* C1: a move was rejected after it had been made on the board, because it
\* left the mover's own king threatened
C1_RejectedAfterMoving ==
  /\ ret.op = "make_move"
  /\ ~ret.res.ok
  /\ ret.res.val = "Move threatens own king"

\* C2 as stated: for well-formed squares (from, to) with a piece of EITHER
\* colour on from, make_move(from, to) succeeds iff to is listed by
\* get_possible_moves(from) in the same state
C2_AcceptedIffListedEitherColour ==
  \A _from \in Texts :
    LET Agree(from, moves) ==
          (from.ok /\ Get(game.board, from.val) # None) =>
            \A _to \in {t \in Texts : from_string(t).ok} :
              make_move(game, _from, _to).res.ok
                <=> \E i \in 1..Len(moves[1]) : moves[1][i] = to_string(Square(_to))
    IN  Agree(from_string(_from), get_possible_moves(game, _from))

\* C2, amended: for well-formed squares (from, to) with a piece of the ACTIVE
\* colour on from, make_move(from, to) succeeds iff to is listed by
\* get_possible_moves(from) in the same state
C2_AcceptedIffListedActiveColour ==
  \A _from \in Texts :
    LET Agree(from, moves) ==
          (/\ from.ok
           /\ Get(game.board, from.val) # None
           /\ color_of(game.board[from.val]) = game.active_color) =>
            \A _to \in {t \in Texts : from_string(t).ok} :
              make_move(game, _from, _to).res.ok
                <=> \E i \in 1..Len(moves[1]) : moves[1][i] = to_string(Square(_to))
    IN  Agree(from_string(_from), get_possible_moves(game, _from))

\* C2: the mover is in check and holds a pawn whose capture on g8 is neither
\* listed nor accepted, while the king's capture on f2 is both
C2_ListedAndAcceptedInCheck ==
  /\ game.state = "Check"
  /\ game.active_color = "White"
  /\ Get(game.board, Square(<<"h", "7">>)) = Some(Piece("Pawn", "White"))
  /\ Get(game.board, Square(<<"f", "2">>)) = Some(Piece("Queen", "Black"))
  /\ get_possible_moves(game, <<"h", "7">>) = Some(<<>>)
  /\ get_possible_moves(game, <<"E", "1">>) = Some(<< <<"f", "2">> >>)

\* No piece of the colour to move has a destination in get_possible_moves
NoLegalMove(self) ==
  \A p \in DOMAIN self.board :
    color_of(self.board[p]) = self.active_color =>
      get_possible_moves(self, to_string(p)) = Some(<<>>)

\* C3: get_game_state returns CheckMate iff no piece of the active colour has
\* a legal destination (whether or not its king is threatened); when some
\* piece has one, it returns the cached status and leaves the Game as it was
C3_CheckMateIffNoLegalMove ==
  [][ret'.op = "get_game_state" =>
       LET Returned(none) ==
             /\ (ret'.res = "CheckMate") <=> none
             /\ ~none => (ret'.res = game.state /\ game' = game)
             /\ none => game' = [game EXCEPT !.state = "CheckMate"]
       IN  Returned(NoLegalMove(game))]_vars

\* C3: get_game_state has returned CheckMate for a colour whose king is not
\* threatened and that has no move (a stalemate)
C3_CheckMateReturned ==
  /\ ret.op = "get_game_state"
  /\ ret.res = "CheckMate"
  /\ game.state = "CheckMate"
  /\ ~_king_is_threatened(game, game.active_color)
  /\ NoLegalMove(game)

\* The squares that hold the king of a colour
Kings(self, color) == {p \in DOMAIN self.board : self.board[p] = Piece("King", color)}

\* C4: in every state reachable from a new game the board holds exactly one
\* White king and exactly one Black king, and no promotion slot holds a king
\* for a promotion to put on the board
C4_OneKingEach ==
  /\ \A color \in Colors : Cardinality(Kings(game, color)) = 1
  /\ \A i \in 1..Len(game.promotion) : game.promotion[i].kind # "King"

\* C4: a White pawn has been promoted to a queen on g8, and each colour still
\* has its one king
C4_PromotedWithBothKings ==
  /\ ret.op = "make_move" /\ ret.res.ok
  /\ Get(game.board, Square(<<"g", "8">>)) = Some(Piece("Queen", "White"))
  /\ Cardinality(Kings(game, "White")) = 1
  /\ Cardinality(Kings(game, "Black")) = 1

\* C5: right after a successful make_move the cached status is Check if the
\* king of the new active colour is threatened and InProgress otherwise (never
\* CheckMate); and in every state whose cached status is not CheckMate, it is
\* Check iff the active colour's king is threatened
C5_StatusTracksThreat ==
  LET Tracks(threatened) ==
        /\ (ret.op = "make_move" /\ ret.res.ok) =>
             game.state = IF threatened THEN "Check" ELSE "InProgress"
        /\ game.state # "CheckMate" => ((game.state = "Check") <=> threatened)
  IN  Tracks(_king_is_threatened(game, game.active_color))

\* C5: a successful move has just given check
C5_MoveGaveCheck ==
  /\ ret.op = "make_move" /\ ret.res.ok
  /\ game.state = "Check"
  /\ _king_is_threatened(game, game.active_color)

\* C6: from a new game the moves f2-f3, e7-e5, g2-g4, d8-h4 are each accepted
\* by make_move, and get_game_state then returns CheckMate
C6_FoolsMate ==
  driver = "fools_mate" =>
    /\ pc.at \notin {"panicked", "failed"}
    /\ (pc.at \in {"moves", "assert"} /\ pc.i > 0) => (ret.op = "make_move" /\ ret.res.ok)
    /\ pc.at = "assert" => pc.i = 4
    /\ pc.at = "passed" => (ret.op = "get_game_state" /\ ret.res = "CheckMate")

\* C6: the four moves have been made and get_game_state has returned CheckMate
C6_FoolsMatePlayed ==
  /\ driver = "fools_mate"
  /\ pc = At("passed", 4)
  /\ Get(game.board, Square(<<"h", "4">>)) = Some(Piece("Queen", "Black"))

\* C7: from a new game the moves e2-e4, e7-e5, d1-h5, b8-c6, f1-c4, g8-f6,
\* h5-f7 are each accepted by make_move, and get_game_state then returns
\* CheckMate: the queen on f7 is protected by the bishop on c4
C7_ScholarsMate ==
  driver = "scholars_mate" =>
    /\ pc.at \notin {"panicked", "failed"}
    /\ (pc.at \in {"moves", "assert"} /\ pc.i > 0) => (ret.op = "make_move" /\ ret.res.ok)
    /\ pc.at = "assert" => pc.i = 7
    /\ pc.at = "passed" =>
         /\ ret.op = "get_game_state"
         /\ ret.res = "CheckMate"
         /\ ~make_move(game, <<"e", "8">>, <<"f", "7">>).res.ok

\* C7: the seven moves have been made and get_game_state has returned
\* CheckMate, the queen on f7 and the bishop on c4
C7_ScholarsMatePlayed ==
  /\ driver = "scholars_mate"
  /\ pc = At("passed", 7)
  /\ Get(game.board, Square(<<"f", "7">>)) = Some(Piece("Queen", "White"))
  /\ Get(game.board, Square(<<"c", "4">>)) = Some(Piece("Bishop", "White"))

\* C8: a successful make_move that lands a pawn on its farthest rank (8 for
\* White, 1 for Black) leaves on the destination the piece of the mover's own
\* promotion slot (a Queen of that colour while the slots are as Game::new made
\* them), not a pawn; every other successful move leaves the unchanged mover
\* on the destination
C8_PromotionOnFarthestRank ==
  \A _from \in Texts, _to \in Texts :
    LET Placed(r) ==
          r.res.ok =>
            LET mover  == game.board[Square(_from)]
                landed == r.game.board[Square(_to)]
            IN  IF /\ mover.kind = "Pawn"
                   /\ Rank(Square(_to)) = (IF mover.color = "White" THEN 8 ELSE 1)
                THEN /\ landed = Slot(game, mover.color)
                     /\ landed.kind # "Pawn"
                     /\ landed.color = mover.color
                     /\ game.promotion = new.promotion => landed.kind = "Queen"
                ELSE landed = mover
    IN  Placed(make_move(game, _from, _to))

\* C8: a White pawn has captured on g8 and the knight of White's promotion
\* slot stands there
C8_PromotedToKnight ==
  /\ ret.op = "make_move"
  /\ ret.res.ok
  /\ ret.res.val = Some(Piece("Knight", "Black"))
  /\ game.active_color = "Black"
  /\ Get(game.board, Square(<<"h", "7">>)) = None
  /\ Get(game.board, Square(<<"g", "8">>)) = Some(Piece("Knight", "White"))
  /\ game.promotion[1] = Piece("Knight", "White")

\* The standard arrangement, square by square
StandardArrangement ==
  LET On(text, kind, color) == Square(text) :> Piece(kind, color)
  IN  On(<<"a", "1">>, "Rook", "White") @@ On(<<"b", "1">>, "Knight", "White")
        @@ On(<<"c", "1">>, "Bishop", "White") @@ On(<<"d", "1">>, "Queen", "White")
        @@ On(<<"e", "1">>, "King", "White") @@ On(<<"f", "1">>, "Bishop", "White")
        @@ On(<<"g", "1">>, "Knight", "White") @@ On(<<"h", "1">>, "Rook", "White")
        @@ On(<<"a", "2">>, "Pawn", "White") @@ On(<<"b", "2">>, "Pawn", "White")
        @@ On(<<"c", "2">>, "Pawn", "White") @@ On(<<"d", "2">>, "Pawn", "White")
        @@ On(<<"e", "2">>, "Pawn", "White") @@ On(<<"f", "2">>, "Pawn", "White")
        @@ On(<<"g", "2">>, "Pawn", "White") @@ On(<<"h", "2">>, "Pawn", "White")
        @@ On(<<"a", "7">>, "Pawn", "Black") @@ On(<<"b", "7">>, "Pawn", "Black")
        @@ On(<<"c", "7">>, "Pawn", "Black") @@ On(<<"d", "7">>, "Pawn", "Black")
        @@ On(<<"e", "7">>, "Pawn", "Black") @@ On(<<"f", "7">>, "Pawn", "Black")
        @@ On(<<"g", "7">>, "Pawn", "Black") @@ On(<<"h", "7">>, "Pawn", "Black")
        @@ On(<<"a", "8">>, "Rook", "Black") @@ On(<<"b", "8">>, "Knight", "Black")
        @@ On(<<"c", "8">>, "Bishop", "Black") @@ On(<<"d", "8">>, "Queen", "Black")
        @@ On(<<"e", "8">>, "King", "Black") @@ On(<<"f", "8">>, "Bishop", "Black")
        @@ On(<<"g", "8">>, "Knight", "Black") @@ On(<<"h", "8">>, "Rook", "Black")

\* C9: Game::new yields exactly 32 pieces in the standard arrangement, active
\* colour White, both promotion slots Queen, cached status InProgress, and
\* get_game_state on it returns InProgress
C9_NewGame ==
  /\ ret.op = "new" =>
       /\ game.board = StandardArrangement
       /\ Cardinality(DOMAIN game.board) = 32
       /\ game.active_color = "White"
       /\ game.promotion = <<Piece("Queen", "White"), Piece("Queen", "Black")>>
       /\ game.state = "InProgress"
       /\ get_game_state(game).res = "InProgress"
  /\ (driver = "game_in_progress_after_init" /\ pc.at \in {"passed", "failed"}) =>
       /\ pc.at = "passed"
       /\ ret.op = "get_game_state"
       /\ ret.res = "InProgress"
       /\ game.board = StandardArrangement

\* C9: get_game_state has been called on a new game and has returned InProgress
C9_NewGameQueried ==
  /\ driver = "game_in_progress_after_init"
  /\ pc.at = "passed"
  /\ ret.op = "get_game_state"
  /\ ret.res = "InProgress"
  /\ game = new

Listed(moves) == {Square(moves[i]) : i \in 1..Len(moves)}

\* C11: no destination returned by get_possible_moves is occupied by a piece
\* of the mover's own colour or by a king of either colour; on the initial
\* board the king on e1 has no legal move
C11_NoOwnPieceNoKingListed ==
  /\ \A text \in Texts :
       LET Clear(position, moves) ==
             moves # None =>
               \A d \in Listed(moves[1]) :
                 \/ Get(game.board, d) = None
                 \/ /\ color_of(game.board[d]) # color_of(game.board[position.val])
                    /\ game.board[d].kind # "King"
       IN  Clear(from_string(text), get_possible_moves(game, text))
  /\ ret.op = "new" => get_possible_moves(game, <<"e", "1">>) = Some(<<>>)
  /\ driver = "possible_moves" => pc.at \notin {"failed", "panicked"}

\* C11: the Black queen on f2 gives check, the White king's square e1 is among
\* her pseudo-legal destinations, and get_possible_moves has just listed her
\* destinations without it
C11_KingSquareLeftOut ==
  /\ game.active_color = "White"
  /\ Get(game.board, Square(<<"f", "2">>)) = Some(Piece("Queen", "Black"))
  /\ Get(game.board, Square(<<"e", "1">>)) = Some(Piece("King", "White"))
  /\ Square(<<"e", "1">>) \in _get_possible_moves(game, Square(<<"f", "2">>))[1]
  /\ ret.op = "get_possible_moves"
  /\ ret.res = get_possible_moves(game, <<"f", "2">>)
  /\ Square(<<"e", "1">>) \notin Listed(ret.res[1])

\* The destinations the rules of the game give a pawn on square p: one square
\* ahead if it is empty, two ahead from the starting rank of its colour if both
\* are empty, a forward diagonal if an opposing piece stands on it
PawnRule(self, p) ==
  LET color    == color_of(self.board[p])
      ahead(k) == Pos(File(p), Rank(p) + k * (IF color = "White" THEN 1 ELSE -1))
      empty(q) == q \in Squares /\ q \notin DOMAIN self.board
  IN  {q \in {ahead(1)} : empty(q)}
        \cup {q \in {ahead(2)} :
                /\ Rank(p) = (IF color = "White" THEN 2 ELSE 7)
                /\ empty(ahead(1))
                /\ empty(q)}
        \cup {q \in {ahead(1) - 10, ahead(1) + 10} :
                /\ q \in DOMAIN self.board
                /\ color_of(self.board[q]) # color}

\* C12: a pawn's straight-ahead destination (one or two squares) is
\* pseudo-legal only if it is empty and, for two squares, the square between
\* is empty too; a forward diagonal only if an opposing piece stands on it; a
\* pawn on its starting rank with both squares ahead empty and no enemy on its
\* diagonals has exactly its two forward squares
C12_PawnPseudoLegal ==
  \A p \in DOMAIN game.board :
    game.board[p].kind = "Pawn" => _get_possible_moves(game, p) = Some(PawnRule(game, p))

\* C12: a move has been made after which a pawn on its starting rank has an
\* empty square two ahead but a piece right in front of it, and no
\* pseudo-legal move, while another pawn has a capture on a diagonal
C12_PawnBlockedAndPawnCapturing ==
  /\ ret.op = "make_move" /\ ret.res.ok
  /\ \E p \in DOMAIN game.board :
       /\ game.board[p].kind = "Pawn"
       /\ Rank(p) \in {2, 7}
       /\ p + direction(color_of(game.board[p])) \in DOMAIN game.board
       /\ p + 2 * direction(color_of(game.board[p])) \notin DOMAIN game.board
       /\ _get_possible_moves(game, p) = Some({})
  /\ \E p \in DOMAIN game.board :
       /\ game.board[p].kind = "Pawn"
       /\ \E q \in _get_possible_moves(game, p)[1] : File(q) # File(p)

\* The squares strictly between two squares of one file, rank or diagonal
Between(p, d) ==
  {q \in Squares \ {p, d} :
     /\ (File(q) - File(p)) * (Rank(d) - Rank(p)) = (Rank(q) - Rank(p)) * (File(d) - File(p))
     /\ File(q) \in Min(File(p), File(d))..Max(File(p), File(d))
     /\ Rank(q) \in Min(Rank(p), Rank(d))..Max(Rank(p), Rank(d))}

\* C13: for a Rook, Bishop or Queen and any geometric destination,
\* _is_piece_in_way is true iff a square strictly between origin and
\* destination on their file, rank or diagonal is occupied; for a King or
\* Knight it is false whatever the other squares hold
C13_InWayIffSquareBetweenOccupied ==
  /\ \A p \in DOMAIN game.board :
       LET piece == game.board[p]
       IN  /\ piece.kind \in {"Rook", "Bishop", "Queen"} =>
                \A d \in valid_destinations(piece, p) :
                  _is_piece_in_way(game, piece, p, d)
                    <=> (Between(p, d) \cap DOMAIN game.board # {})
           /\ piece.kind \in {"King", "Knight"} =>
                \A d \in Squares : ~_is_piece_in_way(game, piece, p, d)
  /\ driver = "piece_in_way" => pc.at # "failed"

\* C13: a move has been made after which the Black queen on d8 has the empty
\* squares e7 and f6 and then the occupied square g5 on her way to h4
C13_QueenBlockedOnThirdSquare ==
  /\ ret.op = "make_move" /\ ret.res.ok
  /\ Get(game.board, Square(<<"d", "8">>)) = Some(Piece("Queen", "Black"))
  /\ Between(Square(<<"d", "8">>), Square(<<"h", "4">>)) \cap DOMAIN game.board
       = {Square(<<"g", "5">>)}
  /\ _is_piece_in_way(game, Piece("Queen", "Black"), Square(<<"d", "8">>), Square(<<"h", "4">>))

\* Names given to set_promotion, each with the kind it names (None: no
\* promotion piece)
PromotionCases ==
  { << <<"q", "u", "e", "e", "n">>, Some("Queen") >>,
    << <<"R", "O", "O", "K">>, Some("Rook") >>,
    << <<"B", "i", "s", "h", "o", "p">>, Some("Bishop") >>,
    << <<"k", "N", "i", "G", "h", "T">>, Some("Knight") >>,
    << <<"k", "i", "n", "g">>, None >>,
    << <<"P", "a", "w", "n">>, None >>,
    << <<"q", "u", "e", "e", "n", "s">>, None >>,
    << <<"k", "n", "i", "g", "h">>, None >>,
    << <<" ", "r", "o", "o", "k">>, None >>,
    << <<>>, None >> }

\* C14: set_promotion(name) with name equal, case-insensitively, to queen,
\* rook, bishop or knight sets the active colour's promotion slot to that kind
\* in the active colour and leaves the other slot, the board, the active colour
\* and the status unchanged; with any other name it returns an error and
\* leaves the whole Game unchanged
C14_SetPromotion ==
  \A case \in PromotionCases :
    LET Sets(kind, r) ==
          IF kind # None
          THEN /\ r.res.ok
               /\ \E i \in 1..2 :
                    /\ color_of(game.promotion[i]) = game.active_color
                    /\ r.game = [game EXCEPT !.promotion[i] = Piece(kind[1], game.active_color)]
          ELSE /\ ~r.res.ok
               /\ r.game = game
    IN  Sets(case[2], set_promotion(game, case[1]))

\* C14: Black has just set its promotion piece to a knight, written "Knight",
\* and White's slot still holds the queen
C14_BlackChoseKnight ==
  /\ ret.op = "set_promotion"
  /\ ret.res.ok
  /\ game.active_color = "Black"
  /\ game.promotion = <<Piece("Queen", "White"), Piece("Knight", "Black")>>

\* C15: for each of the 64 squares from_string(to_string(sq)) succeeds and
\* equals sq, and to_string(sq) has exactly 2 characters; for every
\* two-character text that parses, to_string(from_string(text)) is the text
\* with its file letter in lower case
C15_PositionRoundTrip ==
  /\ ret.op = "to_string" =>
       LET Back(position) == position.ok /\ position.val = ret.res.position
       IN  Len(ret.res.out) = 2 /\ Back(from_string(ret.res.out))
  /\ (ret.op = "from_string" /\ Len(ret.res.text) = 2 /\ ret.res.out.ok) =>
       to_string(ret.res.out.val) = <<LowerChar(ret.res.text[1]), ret.res.text[2]>>

\* C15: from_string has parsed "H8", a text with an upper-case file letter
C15_UpperCaseParsed ==
  /\ ret.op = "from_string"
  /\ ret.res.text = <<"H", "8">>
  /\ ret.res.out.ok
  /\ ret.res.out.val = Pos(8, 8)
  /\ to_string(ret.res.out.val) = <<"h", "8">>

\* C16 as stated: from_string returns an error, never a Position, for every
\* text shorter than 2 characters, every text whose first character is not a
\* letter a-h in either case, and every text whose remainder is missing, not a
\* number or a number outside 1..8; every Position it returns has file and rank
\* within 1..8
C16_MalformedTextIsAnError ==
  ret.op = "from_string" =>
    LET text == ret.res.text
        out  == ret.res.out
        OutOfRange(n) == n = None \/ n[1] \notin 1..8
        Malformed ==
          \/ Len(text) < 2
          \/ text[1] \notin {"a", "b", "c", "d", "e", "f", "g", "h",
                             "A", "B", "C", "D", "E", "F", "G", "H"}
          \/ OutOfRange(parse_u8(Tail(text)))
    IN  /\ Malformed => (~out.ok /\ ~IsPanic(out))
        /\ out.ok => (File(out.val) \in 1..8 /\ Rank(out.val) \in 1..8)

\* C20: valid_destinations of a pawn contains the square two steps forward iff
\* the pawn stands on the starting rank of its colour (2 for White, 7 for
\* Black); from any other rank, a White pawn on rank 7 and a Black pawn on rank
\* 2 included, it is the one-step forward square and the forward diagonals
C20_PawnTwoStepsFromStartingRank ==
  (ret.op = "valid_destinations" /\ ret.res.piece.kind = "Pawn") =>
    LET color == ret.res.piece.color
        p     == ret.res.position
        dir   == IF color = "White" THEN 1 ELSE -1
        start == Rank(p) = (IF color = "White" THEN 2 ELSE 7)
        OnBoard(f, r) == IF f \in 1..8 /\ r \in 1..8 THEN {Pos(f, r)} ELSE {}
        two   == OnBoard(File(p), Rank(p) + 2 * dir)
    IN  /\ (two # {} /\ two \subseteq ret.res.out) <=> start
        /\ ret.res.out = OnBoard(File(p), Rank(p) + dir)
                           \cup (IF start THEN two ELSE {})
                           \cup OnBoard(File(p) - 1, Rank(p) + dir)
                           \cup OnBoard(File(p) + 1, Rank(p) + dir)

\* C20: valid_destinations has been asked for a White pawn on e7 and has
\* returned e8, d8 and f8
C20_WhitePawnOnRank7 ==
  /\ ret.op = "valid_destinations"
  /\ ret.res.piece = Piece("Pawn", "White")
  /\ ret.res.position = Pos(5, 7)
  /\ ret.res.out = {Pos(5, 8), Pos(4, 8), Pos(6, 8)}

\* A piece of the other colour has a pseudo-legal destination on the square of
\* the king of `color`
Attacked(self, color) ==
  \E p \in DOMAIN self.board :
    /\ color_of(self.board[p]) # color
    /\ _get_possible_moves(self, p)[1] \cap Kings(self, color) # {}

\* C17: in every state reachable from a new game the king of the colour that
\* is not to move is not threatened (no piece of the active colour has a
\* pseudo-legal destination on its square), so no successful make_move leaves
\* the mover's own king threatened, and make_move never returns "Cannot
\* capture king"
C17_InactiveKingNotThreatened ==
  /\ ~Attacked(game, Not(game.active_color))
  /\ (ret.op = "make_move" /\ ~ret.res.ok /\ ~IsPanic(ret.res)) =>
       ret.res.val # "Cannot capture king"

\* C17: the White king, in check from the queen on f2, has just captured her
\* and is not threatened on f2
C17_KingEscapedCheck ==
  /\ ret.op = "make_move"
  /\ ret.res.ok
  /\ ret.res.val = Some(Piece("Queen", "Black"))
  /\ game.active_color = "Black"
  /\ Get(game.board, Square(<<"f", "2">>)) = Some(Piece("King", "White"))
  /\ ~Attacked(game, "White")

\* The Game with the piece on `from` put on `to` (promoted if it is a pawn
\* reaching rank 1 or 8) and nothing left on `from`
Trial(self, from, to) ==
  LET Put(new_piece) ==
        [p \in (DOMAIN self.board \ {from}) \cup {to} |->
           IF p = to THEN new_piece ELSE self.board[p]]
  IN  [self EXCEPT !.board = Put(NewPiece(self, self.board[from], to))]

\* The moves (_from, _to) a client can ask make_move for of a piece of the
\* colour to move, with well-formed squares
ActiveMoves ==
  LET Active(from) ==
        /\ from.ok
        /\ Get(game.board, from.val) # None
        /\ color_of(game.board[from.val]) = game.active_color
  IN  {m \in {_from \in Texts : Active(from_string(_from))} \X Texts :
         from_string(m[2]).ok}

\* C18 as stated: make_move tests the destination against the legal moves, so
\* a pseudo-legal destination that would leave the mover's own king threatened
\* is rejected with "Destination move is invalid", and "Move threatens own
\* king" is never returned
C18_SelfCheckIsInvalidDestination ==
  LET Holds(from, to, res) ==
        /\ ~res.ok => res.val # "Move threatens own king"
        /\ (/\ to \in _get_possible_moves(game, from)[1]
            /\ Attacked(Trial(game, from, to), game.active_color)) =>
             (~res.ok /\ res.val = "Destination move is invalid")
  IN  \A m \in ActiveMoves :
        Holds(Square(m[1]), Square(m[2]), make_move(game, m[1], m[2]).res)

\* C18: make_move tests the destination against the pseudo-legal moves
\* (_get_possible_moves): a destination outside them is rejected with
\* "Destination move is invalid"; a pseudo-legal destination that holds no king
\* is tried on the board, and the move is rejected with "Move threatens own
\* king" exactly when the trial leaves the mover's own king threatened, and
\* succeeds otherwise
C18_SelfCheckRejectedAfterTrial ==
  LET Holds(from, to, res) ==
        IF to \notin _get_possible_moves(game, from)[1]
        THEN ~res.ok /\ res.val = "Destination move is invalid"
        ELSE IF Get(game.board, to) # None /\ game.board[to].kind = "King"
        THEN ~res.ok /\ res.val = "Cannot capture king"
        ELSE IF Attacked(Trial(game, from, to), game.active_color)
        THEN ~res.ok /\ res.val = "Move threatens own king"
        ELSE res.ok
  IN  \A m \in ActiveMoves :
        Holds(Square(m[1]), Square(m[2]), make_move(game, m[1], m[2]).res)

\* C18: White is in check from the queen on f2 and has answered with a pawn
\* capture that is pseudo-legal but leaves the king in check: it was rejected
\* with "Move threatens own king"
C18_PawnMoveRejectedInCheck ==
  /\ ret.op = "make_move"
  /\ ~ret.res.ok
  /\ ret.res.val = "Move threatens own king"
  /\ game.active_color = "White"
  /\ game.state = "Check"
  /\ Get(game.board, Square(<<"f", "2">>)) = Some(Piece("Queen", "Black"))
  /\ Get(game.board, Square(<<"h", "7">>)) = Some(Piece("Pawn", "White"))
  /\ Square(<<"g", "8">>) \in _get_possible_moves(game, Square(<<"h", "7">>))[1]
  /\ Attacked(Trial(game, Square(<<"h", "7">>), Square(<<"g", "8">>)), "White")

\* C19: for a piece of the colour that is not to move, get_possible_moves
\* returns exactly its pseudo-legal destinations that hold no king, whether or
\* not the move would expose that piece's own king; for a piece of the colour
\* to move it returns exactly those of them for which the move, tried on a
\* copy of the game, does not leave the mover's king threatened
C19_KingSafetyForActiveColourOnly ==
  \A text \in Texts :
    LET NoKing(moves) ==
          {d \in moves : ~(Get(game.board, d) # None /\ game.board[d].kind = "King")}
        Exactly(position, color, moves) ==
          Listed(get_possible_moves(game, text)[1]) =
            IF color # game.active_color
            THEN moves
            ELSE {d \in moves : ~Attacked(Trial(game, position, d), color)}
        Filtered(position) ==
          (position.ok /\ Get(game.board, position.val) # None) =>
            Exactly(position.val, color_of(game.board[position.val]),
                    NoKing(_get_possible_moves(game, position.val)[1]))
    IN  Filtered(from_string(text))

\* C19: Black is to move and the Black queen on h4 pins the White pawn on f2
\* to its king; get_possible_moves("f2") still lists f3 and f4, which would
\* expose the White king
C19_PinnedPawnOfInactiveColourListed ==
  /\ ret.op = "get_possible_moves"
  /\ game.active_color = "Black"
  /\ Get(game.board, Square(<<"h", "4">>)) = Some(Piece("Queen", "Black"))
  /\ Get(game.board, Square(<<"f", "2">>)) = Some(Piece("Pawn", "White"))
  /\ ret.res = Some(<< <<"f", "3">>, <<"f", "4">> >>)
  /\ ret.res = get_possible_moves(game, <<"f", "2">>)
  /\ Attacked(Trial(game, Square(<<"f", "2">>), Square(<<"f", "3">>)), "White")

\* C21: valid_destinations returns exactly the geometric set clipped to the
\* board (King: the neighbours; Rook: the other squares of the file and of the
\* rank; Bishop: the other squares of the four diagonals; Queen: both; Knight:
\* the L-shaped offsets), for every kind never the origin and only squares of
\* the board; relative_pos returns a square, the one at the two offsets, iff
\* both of its components are within 1..8
C21_DestinationsAreGeometric ==
  /\ ret.op = "valid_destinations" =>
       LET p    == ret.res.position
           kind == ret.res.piece.kind
           df(q) == Abs(File(q) - File(p))
           dr(q) == Abs(Rank(q) - Rank(p))
           Others == Squares \ {p}
           King   == {q \in Others : df(q) <= 1 /\ dr(q) <= 1}
           Rook   == {q \in Others : df(q) = 0 \/ dr(q) = 0}
           Bishop == {q \in Others : df(q) = dr(q)}
           Knight == {q \in Others : {df(q), dr(q)} = {1, 2}}
       IN  /\ p \notin ret.res.out
           /\ ret.res.out \subseteq Squares
           /\ kind = "King" => ret.res.out = King
           /\ kind = "Rook" => ret.res.out = Rook
           /\ kind = "Bishop" => ret.res.out = Bishop
           /\ kind = "Queen" => ret.res.out = Rook \cup Bishop
           /\ kind = "Knight" => ret.res.out = Knight
           /\ kind \in {"King", "Knight"} => Cardinality(ret.res.out) <= 8
  /\ ret.op = "relative_pos" =>
       LET file == File(ret.res.position) + ret.res.file_offset
           rank == Rank(ret.res.position) + ret.res.rank_offset
       IN  /\ ret.res.out # None <=> (1 <= file /\ file <= 8 /\ 1 <= rank /\ rank <= 8)
           /\ ret.res.out # None =>
                /\ File(ret.res.out[1]) = file
                /\ Rank(ret.res.out[1]) = rank
                /\ ret.res.out[1] \in Squares

\* C21: valid_destinations has been asked for a knight in the corner a1 and
\* has returned the two of its eight offsets that are on the board
C21_KnightInTheCorner ==
  /\ ret.op = "valid_destinations"
  /\ ret.res.piece.kind = "Knight"
  /\ ret.res.position = Pos(1, 1)
  /\ ret.res.out = {Pos(2, 3), Pos(3, 2)}

\* C22: a successful make_move(from, to) empties from, puts the mover (or, for
\* a pawn reaching rank 1 or 8, the mover's promotion piece) on to, leaves every
\* other square and the promotion slots unchanged, and returns what stood on
\* to: None, or a piece of the other colour that is not a king; the board has
\* one piece fewer after a capture and as many as before otherwise
C22_SuccessfulMoveEffect ==
  [][(ret'.op = "make_move" /\ ret'.res.ok /\ pc'.i = pc.i + 1) =>
       \E from \in DOMAIN game.board, to \in Squares :
         LET mover    == game.board[from]
             removed  == Get(game.board, to)
             promoted == mover.kind = "Pawn" /\ Rank(to) \in {1, 8}
         IN  /\ to # from
             /\ mover.color = game.active_color
             /\ Get(game'.board, from) = None
             /\ Get(game'.board, to) =
                  Some(IF promoted THEN Slot(game, game.active_color) ELSE mover)
             /\ \A q \in Squares \ {from, to} : Get(game'.board, q) = Get(game.board, q)
             /\ game'.promotion = game.promotion
             /\ ret'.res.val = removed
             /\ removed # None =>
                  /\ removed[1].color # mover.color
                  /\ removed[1].kind # "King"
             /\ Cardinality(DOMAIN game'.board) =
                  Cardinality(DOMAIN game.board) - (IF removed = None THEN 0 ELSE 1)]_vars

\* C22: the White pawn on h7 has captured the knight on g8 and has been
\* promoted there; the knight was returned, and of the 32 pieces the h-pawn
\* and the knight are gone
C22_CapturedWithPromotion ==
  /\ ret.op = "make_move"
  /\ ret.res.ok
  /\ ret.res.val = Some(Piece("Knight", "Black"))
  /\ Get(game.board, Square(<<"h", "7">>)) = None
  /\ Get(game.board, Square(<<"g", "8">>)) # None
  /\ game.board[Square(<<"g", "8">>)] = Slot(game, "White")
  /\ Cardinality(DOMAIN game.board) = 30

\* The callers whose pc.i counts the successful moves made since Game::new
CountsMoves == driver \in Drivers \ {"possible_moves", "piece_in_way"}

\* C23: the board and the active colour change only in a successful make_move,
\* which gives the turn to the other colour; get_possible_moves changes nothing
\* of the Game, get_game_state at most the cached status and only to CheckMate,
\* set_promotion at most the promotion slot of the active colour; so after n
\* successful moves from a new game the active colour is White iff n is even
C23_OnlyMovesChangeBoardAndTurn ==
  /\ [](CountsMoves => (game.active_color = "White" <=> pc.i % 2 = 0))
  /\ [][/\ (game'.board # game.board \/ game'.active_color # game.active_color) =>
             (ret'.op = "make_move" /\ ret'.res.ok)
        /\ (ret'.op = "make_move" /\ ret'.res.ok /\ pc'.i = pc.i + 1) =>
             game'.active_color = Not(game.active_color)
        /\ ret'.op = "get_possible_moves" => game' = game
        /\ ret'.op = "get_game_state" =>
             \/ game' = game
             \/ game' = [game EXCEPT !.state = "CheckMate"]
        /\ ret'.op = "set_promotion" =>
             \/ game' = game
             \/ \E kind \in Kinds :
                  game' = [game EXCEPT !.promotion =
                             [i \in 1..Len(game.promotion) |->
                                IF color_of(game.promotion[i]) = game.active_color
                                THEN Piece(kind, game.active_color)
                                ELSE game.promotion[i]]]]_vars

\* C23: after three successful moves it is Black's turn, and a set_promotion
\* call has changed the Black slot and nothing else of the Game
C23_BlackToMoveAfterThreeMoves ==
  /\ driver = "client"
  /\ pc.i = 3
  /\ game.active_color = "Black"
  /\ ret.op = "set_promotion"
  /\ ret.res.ok
  /\ Slot(game, "Black").kind = "Knight"
  /\ Slot(game, "White").kind = "Queen"
  /\ game.state = "InProgress"

\* C24: once get_game_state has returned CheckMate (the cached status is
\* CheckMate from then on) every make_move fails, for every from and to, the
\* board and the active colour never change again, and every get_game_state
\* returns CheckMate
C24_CheckMateIsTerminal ==
  /\ [](game.state = "CheckMate" =>
          \A from \in Squares, to \in Squares :
            ~make_move(game, to_string(from), to_string(to)).res.ok)
  /\ [][game.state = "CheckMate" =>
          /\ game'.board = game.board
          /\ game'.active_color = game.active_color
          /\ game'.state = "CheckMate"
          /\ ret'.op = "make_move" => ~ret'.res.ok
          /\ ret'.op = "get_game_state" => ret'.res = "CheckMate"]_vars

\* C24: after the fool's mate get_game_state has returned CheckMate, and a
\* pseudo-legal move White has tried afterwards has been rejected
C24_MoveRejectedAfterCheckMate ==
  /\ driver = "mated_client"
  /\ game.state = "CheckMate"
  /\ game.active_color = "White"
  /\ ret.op = "make_move"
  /\ ~ret.res.ok
  /\ ret.res.val = "Move threatens own king"

\* C25: in every reachable state, a call of get_game_state followed by a
\* second one, with no call or with a set_promotion call between them, returns
\* the same status both times, and the second call leaves the Game as it was
C25_GetGameStateIdempotent ==
  LET Second(between, status) ==
        get_game_state(between) = [game |-> between, res |-> status]
      Twice(first) ==
        /\ Second(first.game, first.res)
        /\ \A _piece \in PromotionNames :
             Second(set_promotion(first.game, _piece).game, first.res)
  IN  Twice(get_game_state(game))

\* C25: get_game_state has returned Check to a client, and the next call
\* returns Check again and changes nothing
C25_CheckReturnedTwice ==
  /\ driver = "client"
  /\ ret.op = "get_game_state"
  /\ ret.res = "Check"
  /\ get_game_state(game) = [game |-> game, res |-> "Check"]

\* C26: in every state reachable from a new game no pawn stands on rank 1 or
\* on rank 8, every occupied square has its file and its rank within 1..8, and
\* the promotion slots hold one White piece and one Black piece, each of them
\* a queen, a rook, a bishop or a knight
C26_NoPawnOnLastRanks ==
  /\ \A p \in DOMAIN game.board :
       /\ File(p) \in 1..8
       /\ Rank(p) \in 1..8
       /\ game.board[p].kind = "Pawn" => Rank(p) \notin {1, 8}
  /\ Len(game.promotion) = 2
  /\ {color_of(game.promotion[i]) : i \in 1..2} = Colors
  /\ \A i \in 1..2 : game.promotion[i].kind \in {"Queen", "Rook", "Bishop", "Knight"}

\* C26: a White pawn has reached g8 and a queen stands there, after Black has
\* chosen the knight for its own promotions
C26_PawnReplacedOnRank8 ==
  /\ ret.op = "make_move"
  /\ ret.res.ok
  /\ game.active_color = "Black"
  /\ Get(game.board, Square(<<"g", "8">>)) = Some(Piece("Queen", "White"))
  /\ game.promotion = <<Piece("Queen", "White"), Piece("Knight", "Black")>>

\* C27: the exported get_possible_moves(json, pos) never answers a malformed
\* square with the output it gives for an occupied square whose piece has no
\* legal move (in a new game, the rook on a1)
C27_MalformedSquareDistinguished ==
  (/\ ret.op = "wasm_get_possible_moves"
   /\ ~IsPanic(from_string(ret.res.pos))
   /\ ~from_string(ret.res.pos).ok) =>
    /\ get_possible_moves(deserialize_game(ret.res.json), <<"a", "1">>) = Some(<<>>)
    /\ ret.res.out # wasm_get_possible_moves(ret.res.json, <<"a", "1">>)

====
